---- MODULE Spec2Model ----
(***************************************************************************)
(* Model of src/src/fetch_jobs.py: the two page parsers, the keyword       *)
(* filter, the seen store (load_seen / save_seen), the digest writer and   *)
(* the control flow of main().                                             *)
(*                                                                         *)
(* Python str values are TLA+ strings; Len, \o and SubSeq act on them      *)
(* character by character.  A value held in the seen set is a record       *)
(* [t, v]: t is the Python type of the element ("str" or "int") and v its  *)
(* text, so that a set read from a hand-edited seen.json can hold both.    *)
(***************************************************************************)
EXTENDS Integers, Sequences, FiniteSets, TLC

(***************************************************************************)
(* Bounds of the model.                                                    *)
(***************************************************************************)
MaxRuns == 2
MaxLines == 5
MaxLinks == 3

(***************************************************************************)
(* String primitives (Python str methods used by the script).              *)
(***************************************************************************)
Char(s, i) == SubSeq(s, i, i)

Drop(s, n) == SubSeq(s, n + 1, Len(s))

UpperLetters == "ABCDEFGHIJKLMNOPQRSTUVWXYZ"

LowerLetters == "abcdefghijklmnopqrstuvwxyz"

LowerTable ==
    [c \in {Char(UpperLetters, i) : i \in 1..Len(UpperLetters)} |->
        Char(LowerLetters, CHOOSE i \in 1..Len(UpperLetters) : Char(UpperLetters, i) = c)]

LowerChar(c) == IF c \in DOMAIN LowerTable THEN LowerTable[c] ELSE c

RECURSIVE Lower(_)
Lower(s) == IF s = "" THEN "" ELSE LowerChar(Char(s, 1)) \o Lower(Drop(s, 1))

Contains(t, k) == \E i \in 1..(Len(t) - Len(k) + 1) : SubSeq(t, i, i + Len(k) - 1) = k

StartsWith(s, p) == Len(s) >= Len(p) /\ SubSeq(s, 1, Len(p)) = p

IsSpace(c) == c \in {" ", "\t", "\n", "\r"}

RECURSIVE LStrip(_)
LStrip(s) == IF s # "" /\ IsSpace(Char(s, 1)) THEN LStrip(Drop(s, 1)) ELSE s

RECURSIVE RStrip(_)
RStrip(s) ==
    IF s # "" /\ IsSpace(Char(s, Len(s))) THEN RStrip(SubSeq(s, 1, Len(s) - 1)) ELSE s

Strip(s) == RStrip(LStrip(s))

(***************************************************************************)
(* Code-point order on the characters that occur in identifiers, and the   *)
(* order sorted() puts on str values.                                      *)
(***************************************************************************)
CodePoints == " #/.0123456789:ABCDEFGHIJKLMNOPQRSTUVWXYZabcdefghijklmnopqrstuvwxyz|"

Ord(c) == CHOOSE i \in 1..Len(CodePoints) : Char(CodePoints, i) = c

RECURSIVE StrLess(_, _)
StrLess(a, b) ==
    IF b = "" THEN FALSE
    ELSE IF a = "" THEN TRUE
    ELSE IF Char(a, 1) = Char(b, 1) THEN StrLess(Drop(a, 1), Drop(b, 1))
    ELSE Ord(Char(a, 1)) < Ord(Char(b, 1))

(***************************************************************************)
(* Configuration.                                                          *)
(***************************************************************************)
SOURCES == << [name |-> "OnlineJobMW", url |-> "https://onlinejobmw.com/job-category/job_vacancies/"],
              [name |-> "Ntchito", url |-> "https://ntchito.com/"] >>

KEYWORDS == <<"Manager", "Officer", "Assistant", "Project">>

MinTitleLen == 6

NavLabels == {"home", "jobs", "contact", "register", "login"}

LowerKeywords == [n \in 1..Len(KEYWORDS) |-> Lower(KEYWORDS[n])]

keyword_match(text) ==
    LET t == Lower(text)
    IN  \E n \in 1..Len(KEYWORDS) : Contains(t, LowerKeywords[n])

(***************************************************************************)
(* parse_ntchito.  A page is the sequence of its a[href] elements, each    *)
(* [href, text] with text the visible text get_text(" ", strip=True).      *)
(***************************************************************************)
NtchitoPrefix == "https://ntchito.com/"

NtchitoId(href) == "ntchito::" \o href

NtchitoAccepts(href, title) ==
    /\ ~(title = "" \/ Len(title) < MinTitleLen)
    /\ StartsWith(href, NtchitoPrefix)
    /\ Lower(title) \notin NavLabels
    /\ keyword_match(title)

NtchitoJob(a) ==
    LET href == Strip(a.href)
    IN  [id |-> NtchitoId(href), title |-> a.text, link |-> href,
         source |-> "Ntchito", meta |-> ""]

RECURSIVE NtchitoJobs(_)
NtchitoJobs(links) ==
    IF links = <<>> THEN <<>>
    ELSE LET a == Head(links)
         IN  (IF NtchitoAccepts(Strip(a.href), a.text) THEN <<NtchitoJob(a)>> ELSE <<>>)
             \o NtchitoJobs(Tail(links))

KeepAll(jobs, k) == jobs

\* {j["id"]: j for j in jobs} then list(values()): one entry per id, at the
\* position of the id's first occurrence, holding the id's last job.
RECURSIVE DedupById(_, _)
DedupById(jobs, k) ==
    IF k > Len(jobs) THEN <<>>
    ELSE IF \E m \in 1..(k - 1) : jobs[m].id = jobs[k].id THEN DedupById(jobs, k + 1)
    ELSE LET last == CHOOSE m \in k..Len(jobs) :
                        /\ jobs[m].id = jobs[k].id
                        /\ \A n \in (m + 1)..Len(jobs) : jobs[n].id # jobs[k].id
         IN  <<jobs[last]>> \o DedupById(jobs, k + 1)

parse_ntchito(links) == DedupById(NtchitoJobs(links), 1)

(***************************************************************************)
(* parse_onlinejobmw.  A page is text.split("\n") of its text.             *)
(***************************************************************************)
RECURSIVE PageLines(_)
PageLines(raw) ==
    IF raw = <<>> THEN <<>>
    ELSE (IF Strip(Head(raw)) # "" THEN <<Strip(Head(raw))>> ELSE <<>>) \o PageLines(Tail(raw))

LookBackShifted(lines, i, d) == IF i - d + 1 >= 1 THEN lines[i - d + 1] ELSE ""

\* lines[i - d] if i - d >= 0 else "" (i counts from 0 there, from 1 here)
LookBack(lines, i, d) == IF i - d >= 1 THEN lines[i - d] ELSE ""

TitleOffset == 4

CompanyOffset == 3

LocationOffset == 2

RECURSIVE JoinParts(_)
JoinParts(parts) ==
    IF parts = <<>> THEN ""
    ELSE IF Len(parts) = 1 THEN parts[1]
    ELSE parts[1] \o " | " \o JoinParts(Tail(parts))

OnlineJobMWId(title, company, posted) ==
    "onlinejobmw::" \o title \o "::" \o company \o "::" \o posted

OnlineJobMWJob(lines, i) ==
    LET posted == lines[i]
        title == LookBack(lines, i, TitleOffset)
        company == LookBack(lines, i, CompanyOffset)
        location == LookBack(lines, i, LocationOffset)
    IN  [id |-> OnlineJobMWId(title, company, posted),
         title |-> title,
         link |-> "https://onlinejobmw.com/job-category/job_vacancies/",
         source |-> "OnlineJobMW",
         meta |-> JoinParts(SelectSeq(<<company, location, posted>>, LAMBDA p : p # ""))]

OnlineJobMWAccepts(lines, i) ==
    LET title == LookBack(lines, i, TitleOffset)
    IN  /\ StartsWith(Lower(lines[i]), "posted ")
        /\ ~(title = "" \/ Len(title) < MinTitleLen)
        /\ keyword_match(title)

RECURSIVE OnlineJobMWScan(_, _)
OnlineJobMWScan(lines, i) ==
    IF i > Len(lines) THEN <<>>
    ELSE (IF OnlineJobMWAccepts(lines, i) THEN <<OnlineJobMWJob(lines, i)>> ELSE <<>>)
         \o OnlineJobMWScan(lines, i + 1)

parse_onlinejobmw(raw) == OnlineJobMWScan(PageLines(raw), 1)

(***************************************************************************)
(* The seen store.  A file content is [kind, elems]: no file ("missing"),  *)
(* text json.loads rejects ("garbage"), or the JSON value it holds: a      *)
(* "scalar" (number, true, false, null), a "string" (elems[1] is its       *)
(* text), an "object" (elems are its keys) or an "array" (elems are its    *)
(* elements, each a str, an int or a nested list).                         *)
(***************************************************************************)
StrVal(s) == [t |-> "str", v |-> s]

IntVal(s) == [t |-> "int", v |-> s]

ListVal(s) == [t |-> "list", v |-> s]

File(kind, elems) == [kind |-> kind, elems |-> elems]

SeqRange(q) == {q[n] : n \in 1..Len(q)}

\* set(json.loads(text)), or set() when an exception is raised
load_seen(f) ==
    CASE f.kind = "missing" -> {}
      [] f.kind = "garbage" -> {}
      [] f.kind = "scalar" -> {}
      [] f.kind = "string" -> {StrVal(Char(f.elems[1].v, n)) : n \in 1..Len(f.elems[1].v)}
      [] f.kind = "object" -> SeqRange(f.elems)
      [] f.kind = "array" ->
            IF \E n \in 1..Len(f.elems) : f.elems[n].t = "list" THEN {} ELSE SeqRange(f.elems)

\* a < b as sorted() decides it for two values of one type
ValLess(a, b) ==
    IF a.t = "int"
    THEN Len(a.v) < Len(b.v) \/ (Len(a.v) = Len(b.v) /\ StrLess(a.v, b.v))
    ELSE StrLess(a.v, b.v)

\* sorted() raises TypeError when it has to compare a str with an int
Sortable(S) == \A a, b \in S : a.t = b.t

RECURSIVE Sorted(_)
Sorted(S) ==
    IF S = {} THEN <<>>
    ELSE LET m == CHOOSE x \in S : \A y \in S \ {x} : ValLess(x, y)
         IN  <<m>> \o Sorted(S \ {m})

(***************************************************************************)
(* State.  pc is the position of main(); store is the content of           *)
(* data/seen.json, digest that of outputs/daily_jobs.md, logf that of      *)
(* outputs/run.log; seen, collected and new_jobs are main's locals and     *)
(* srcIdx the position of its loop over SOURCES.  runs counts the runs     *)
(* started.  History of the run: storeAtLoad and loaded are the file that  *)
(* load_seen read and the set it returned, fetched the outcome of          *)
(* fetch_html for each source (prevFetched: in the run before), reported   *)
(* the identifiers of the postings some digest has listed, store0 the      *)
(* file before the first run.  pSite, pInput, pOutput, pDone are the       *)
(* argument and the result of one direct call of a page parser.            *)
(***************************************************************************)
VARIABLES pc, store, digest, logf, seen, collected, new_jobs, srcIdx, runs,
          storeAtLoad, loaded, fetched, prevFetched, reported, store0,
          pSite, pInput, pOutput, pDone

mainVars == <<pc, store, digest, logf, seen, collected, new_jobs, srcIdx, runs,
              storeAtLoad, loaded, fetched, prevFetched, reported, store0>>

parseVars == <<pSite, pInput, pOutput, pDone>>

vars == <<mainVars, parseVars>>

(***************************************************************************)
(* Page contents the parsers are applied to.                               *)
(***************************************************************************)
LineVocab == {"Finance Officer", "Acme Corp", " Lilongwe ", "Posted 2 days ago", " "}

HrefVocab == {"https://ntchito.com/jobs/1", " https://ntchito.com/jobs/1 ",
              "https://ntchito.com/jobs/2", "https://example.com/jobs/3"}

TextVocab == {"Finance Officer Needed", "Project Manager", "Home", "Contact"}

LinkVocab == [href : HrefVocab, text : TextVocab]

SeqsUpTo(S, n) == UNION {[1..m -> S] : m \in 0..n}

\* the pages a run of main may be served
ListingBlock == <<"Finance Officer", "Acme Corp", "Lilongwe", "Full Time", "Posted 2 days ago">>

OnlineJobMWPages == {ListingBlock, ListingBlock \o ListingBlock}

NtchitoPages ==
    {<< [href |-> "https://ntchito.com/", text |-> "Home"],
        [href |-> "https://ntchito.com/jobs/1", text |-> "Finance Officer Needed"],
        [href |-> "https://ntchito.com/jobs/1", text |-> "Finance Officer Needed"] >>}

Pages(name) == IF name = "OnlineJobMW" THEN OnlineJobMWPages ELSE NtchitoPages

\* what seen.json may hold before the first run
ListedId == "onlinejobmw::Finance Officer::Acme Corp::Posted 2 days ago"

InitialStores ==
    { File("missing", <<>>),
      File("garbage", <<>>),
      File("scalar", <<>>),
      File("string", <<StrVal("ab")>>),
      File("object", <<StrVal("k")>>),
      File("array", <<StrVal(ListedId)>>),
      File("array", <<IntVal("1")>>),
      File("array", <<IntVal("1"), StrVal("x")>>),
      File("array", <<StrVal("x"), ListVal("y")>>) }

(***************************************************************************)
(* log, write_digest.                                                      *)
(***************************************************************************)
log(msg) == Append(logf, RStrip(msg))

Today == "2024-01-0" \o ToString(runs)

DigestEntry(j) ==
    <<"- **" \o j.title \o "** (" \o j.source \o ")">>
    \o (IF j.meta # "" THEN <<"  - " \o j.meta>> ELSE <<>>)
    \o <<"  - " \o j.link>>

RECURSIVE DigestEntries(_)
DigestEntries(jobs) ==
    IF jobs = <<>> THEN <<>> ELSE DigestEntry(Head(jobs)) \o DigestEntries(Tail(jobs))

DigestLines(jobs) ==
    <<"# Malawi Job Digest - " \o Today, "">>
    \o (IF jobs = <<>> THEN <<"No new matching jobs today.">> ELSE DigestEntries(jobs))

\* the digest d holds the entry of posting j
Listed(d, j) ==
    \E k \in 1..Len(d) :
        /\ k + Len(DigestEntry(j)) - 1 <= Len(d)
        /\ SubSeq(d, k, k + Len(DigestEntry(j)) - 1) = DigestEntry(j)

(***************************************************************************)
(* main.  The environment chooses the outcome of fetch_html and of the     *)
(* SMTP session; writes to the three local files succeed.  The only        *)
(* exception that leaves main is the TypeError of sorted() in save_seen.   *)
(***************************************************************************)
NotFetched == [st |-> "none", page |-> <<>>]

Parse(name, page) ==
    IF name = "Ntchito" THEN parse_ntchito(page)
    ELSE IF name = "OnlineJobMW" THEN parse_onlinejobmw(page)
    ELSE <<>>

IsNewAlways(j, s) == TRUE

IsNewNever(j, s) == FALSE

\* j["id"] not in seen
IsNew(j, s) == StrVal(j.id) \notin s

Ids(jobs) == {StrVal(jobs[n].id) : n \in 1..Len(jobs)}

DumpNewOnly(s) == File("array", Sorted(s \ loaded))

\* json.dumps(sorted(seen), indent=2)
Dump(s) == File("array", Sorted(s))

ParseIdle ==
    /\ pSite = "none"
    /\ pInput = <<>>
    /\ pOutput = <<>>
    /\ pDone = FALSE

MainIdle(f) ==
    /\ pc = "idle"
    /\ store = f
    /\ store0 = f
    /\ storeAtLoad = f
    /\ digest = <<>>
    /\ logf = <<>>
    /\ seen = {}
    /\ loaded = {}
    /\ collected = <<>>
    /\ new_jobs = <<>>
    /\ srcIdx = 1
    /\ runs = 0
    /\ fetched = [n \in 1..Len(SOURCES) |-> NotFetched]
    /\ prevFetched = [n \in 1..Len(SOURCES) |-> NotFetched]
    /\ reported = {}

Init == ParseIdle /\ \E f \in InitialStores : MainIdle(f)

\* lines 212-215; the process of an aborted run is gone, the next run is a new one
Start ==
    /\ pc \in {"idle", "aborted"}
    /\ runs < MaxRuns
    /\ runs' = runs + 1
    /\ logf' = log("=== Script started ===")
    /\ seen' = load_seen(store)
    /\ loaded' = load_seen(store)
    /\ storeAtLoad' = store
    /\ collected' = <<>>
    /\ new_jobs' = <<>>
    /\ srcIdx' = 1
    /\ prevFetched' = fetched
    /\ fetched' = [n \in 1..Len(SOURCES) |-> NotFetched]
    /\ pc' = "fetch"
    /\ UNCHANGED <<store, digest, reported, store0, parseVars>>

\* lines 218-223: fetch_html returns the page and the parser's result is collected
FetchAndParse ==
    /\ pc = "fetch"
    /\ srcIdx <= Len(SOURCES)
    /\ \E page \in Pages(SOURCES[srcIdx].name) :
          /\ collected' = collected \o Parse(SOURCES[srcIdx].name, page)
          /\ fetched' = [fetched EXCEPT ![srcIdx] = [st |-> "ok", page |-> page]]
    /\ srcIdx' = srcIdx + 1
    /\ UNCHANGED <<pc, store, digest, logf, seen, new_jobs, runs, storeAtLoad, loaded,
                   prevFetched, reported, store0, parseVars>>

\* lines 224-225: fetch_html (or the parser) raises
FetchFails ==
    /\ pc = "fetch"
    /\ srcIdx <= Len(SOURCES)
    /\ logf' = log("ERROR fetching " \o SOURCES[srcIdx].name)
    /\ fetched' = [fetched EXCEPT ![srcIdx] = [st |-> "fail", page |-> <<>>]]
    /\ srcIdx' = srcIdx + 1
    /\ UNCHANGED <<pc, store, digest, seen, collected, new_jobs, runs, storeAtLoad, loaded,
                   prevFetched, reported, store0, parseVars>>

\* line 228
Partition ==
    /\ pc = "fetch"
    /\ srcIdx > Len(SOURCES)
    /\ new_jobs' = SelectSeq(collected, LAMBDA j : IsNew(j, seen))
    /\ pc' = "record"
    /\ UNCHANGED <<store, digest, logf, seen, collected, srcIdx, runs, storeAtLoad, loaded,
                   fetched, prevFetched, reported, store0, parseVars>>

\* lines 231-233; a TypeError of sorted() leaves main before the file is opened
RecordAndSave ==
    /\ pc = "record"
    /\ seen' = seen \cup Ids(collected)
    /\ IF Sortable(seen')
       THEN store' = Dump(seen') /\ pc' = "digest"
       ELSE store' = store /\ pc' = "aborted"
    /\ UNCHANGED <<digest, logf, collected, new_jobs, srcIdx, runs, storeAtLoad, loaded,
                   fetched, prevFetched, reported, store0, parseVars>>

\* line 235
WriteDigest ==
    /\ pc = "digest"
    /\ digest' = DigestLines(new_jobs)
    /\ reported' = reported \cup {StrVal(collected[n].id) : n \in {m \in 1..Len(collected) : Listed(digest', collected[m])}}
    /\ pc' = "email"
    /\ UNCHANGED <<store, logf, seen, collected, new_jobs, srcIdx, runs, storeAtLoad, loaded,
                   fetched, prevFetched, store0, parseVars>>

SendEmail(line) ==
    /\ pc = "email"
    /\ logf' = log(line)
    /\ pc' = "finish"
    /\ UNCHANGED <<store, digest, seen, collected, new_jobs, srcIdx, runs, storeAtLoad, loaded,
                   fetched, prevFetched, reported, store0, parseVars>>

\* lines 97-99
EmailNotConfigured == SendEmail("Email not sent: missing .env values (SENDER_EMAIL / SENDER_APP_PASSWORD / RECIPIENT_EMAIL).")

\* lines 115-119
EmailSent == SendEmail("Email sent to recipient")

\* lines 120-121
EmailFails == SendEmail("Email send FAILED: error")

\* lines 242-244
Finish ==
    /\ pc = "finish"
    /\ logf' = logf \o << RStrip("New items: " \o ToString(Len(new_jobs))),
                         RStrip("Digest: outputs/daily_jobs.md"),
                         RStrip("=== Script finished ===") >>
    /\ pc' = "idle"
    /\ UNCHANGED <<store, digest, seen, collected, new_jobs, srcIdx, runs, storeAtLoad, loaded,
                   fetched, prevFetched, reported, store0, parseVars>>

Next ==
    \/ Start
    \/ FetchAndParse
    \/ FetchFails
    \/ Partition
    \/ RecordAndSave
    \/ WriteDigest
    \/ EmailNotConfigured
    \/ EmailSent
    \/ EmailFails
    \/ Finish

Spec == Init /\ [][Next]_vars

(***************************************************************************)
(* Direct calls of the page parsers on every page within the bounds.       *)
(***************************************************************************)
InitParse ==
    /\ MainIdle(File("missing", <<>>))
    /\ pDone = FALSE
    /\ pOutput = <<>>
    /\ \/ pSite = "OnlineJobMW" /\ pInput \in SeqsUpTo(LineVocab, MaxLines)
       \/ pSite = "Ntchito" /\ pInput \in SeqsUpTo(LinkVocab, MaxLinks)

CallParseOnlineJobMW ==
    /\ ~pDone
    /\ pSite = "OnlineJobMW"
    /\ pOutput' = parse_onlinejobmw(pInput)
    /\ pDone' = TRUE
    /\ UNCHANGED <<pSite, pInput, mainVars>>

CallParseNtchito ==
    /\ ~pDone
    /\ pSite = "Ntchito"
    /\ pOutput' = parse_ntchito(pInput)
    /\ pDone' = TRUE
    /\ UNCHANGED <<pSite, pInput, mainVars>>

NextParse == CallParseOnlineJobMW \/ CallParseNtchito

SpecParse == InitParse /\ [][NextParse]_vars

(***************************************************************************)
(* Properties.                                                             *)
(***************************************************************************)
\* main is past line 228 (new_jobs is computed) in the current run
Partitioned == pc \in {"record", "digest", "email", "finish", "aborted"}

\* main is past line 235 (the digest of the current run is written)
DigestWritten == pc \in {"email", "finish"} \/ (pc = "idle" /\ runs > 0)

\* the parsers' results for the pages this run fetched, in the order of SOURCES
RECURSIVE ParsedFrom(_)
ParsedFrom(n) ==
    IF n > Len(SOURCES) THEN <<>>
    ELSE (IF fetched[n].st = "ok" THEN Parse(SOURCES[n].name, fetched[n].page) ELSE <<>>)
         \o ParsedFrom(n + 1)

\* the lines the current run has appended to the log
RunLog ==
    LET starts == {n \in 1..Len(logf) : logf[n] = "=== Script started ==="}
    IN  IF starts = {} THEN <<>>
        ELSE SubSeq(logf, CHOOSE n \in starts : \A m \in starts : m <= n, Len(logf))

WellFormedStore(f) ==
    f.kind = "array" /\ \A n \in 1..Len(f.elems) : f.elems[n].t = "str"

\* C1: once new_jobs is computed, a collected posting is in new_jobs iff its
\* identifier is not in the set load_seen returned at the start of the run,
\* new_jobs holds nothing else, and collected is still exactly what the parsers
\* returned for the fetched pages.
C1_NewIffAbsentFromLoaded ==
    Partitioned =>
        /\ \A i \in 1..Len(collected) :
              (\E k \in 1..Len(new_jobs) : new_jobs[k] = collected[i])
                  <=> StrVal(collected[i].id) \notin loaded
        /\ \A k \in 1..Len(new_jobs) : \E i \in 1..Len(collected) : new_jobs[k] = collected[i]
        /\ collected = ParsedFrom(1)

C1_Witness ==
    /\ pc = "record"
    /\ \E i \in 1..Len(collected) : StrVal(collected[i].id) \in loaded
    /\ \E i \in 1..Len(collected) : StrVal(collected[i].id) \notin loaded
    /\ Len(new_jobs) < Len(collected)
    /\ new_jobs # <<>>

\* C2: when a run fetched from every source the very page the run before it
\* fetched, it has no new postings and its digest is the heading followed by the
\* single line "No new matching jobs today.", whatever seen.json held before.
C2_SecondRunHasNothingNew ==
    (/\ runs >= 2
     /\ \A n \in 1..Len(SOURCES) : fetched[n].st = "ok" /\ fetched[n] = prevFetched[n])
    => /\ Partitioned => new_jobs = <<>>
       /\ DigestWritten =>
             /\ Len(digest) = 3
             /\ digest[3] = "No new matching jobs today."
       /\ pc # "aborted"

\* C3: no step removes an identifier from the set seen.json holds (the set
\* load_seen reads from it).
C3_SeenSetOnlyGrows == [][load_seen(store) \subseteq load_seen(store')]_vars

C3_Witness ==
    /\ pc = "digest"
    /\ load_seen(storeAtLoad) # {}
    /\ load_seen(storeAtLoad) # load_seen(store)
    /\ load_seen(storeAtLoad) \subseteq load_seen(store)
    /\ \E n \in 1..Len(SOURCES) : fetched[n].st = "fail"

\* the digest the current run has written (none when it ended before line 235)
DigestOfRun == IF DigestWritten THEN digest ELSE <<>>

\* C4: every source is attempted whatever happened to the one before it; when
\* one source failed and the other was fetched, the failure is in the run's log,
\* collected is exactly what the parser returned for the other source's page, and
\* once the run is over its digest lists each of those postings whose identifier
\* was not in the loaded set.
C4_FailureOfOneSourceSparesTheOther ==
    /\ (Partitioned \/ DigestWritten) => \A n \in 1..Len(SOURCES) : fetched[n].st # "none"
    /\ \A f, o \in 1..Len(SOURCES) :
          (fetched[f].st = "fail" /\ fetched[o].st = "ok") =>
              /\ (Partitioned \/ DigestWritten) =>
                    /\ \E k \in 1..Len(RunLog) : RunLog[k] = "ERROR fetching " \o SOURCES[f].name
                    /\ collected = Parse(SOURCES[o].name, fetched[o].page)
              /\ (DigestWritten \/ pc = "aborted") =>
                    \A i \in 1..Len(collected) :
                        StrVal(collected[i].id) \notin loaded => Listed(DigestOfRun, collected[i])

\* The same for the runs that reach write_digest: the handling of the fetch
\* failure itself (lines 218-225) loses nothing.
FetchFailureSparesTheOtherInWrittenDigest ==
    /\ (Partitioned \/ DigestWritten) => \A n \in 1..Len(SOURCES) : fetched[n].st # "none"
    /\ \A f, o \in 1..Len(SOURCES) :
          (fetched[f].st = "fail" /\ fetched[o].st = "ok") =>
              /\ (Partitioned \/ DigestWritten) =>
                    /\ \E k \in 1..Len(RunLog) : RunLog[k] = "ERROR fetching " \o SOURCES[f].name
                    /\ collected = Parse(SOURCES[o].name, fetched[o].page)
              /\ DigestWritten =>
                    \A i \in 1..Len(collected) :
                        StrVal(collected[i].id) \notin loaded => Listed(digest, collected[i])

\* C5: when the file load_seen read was not an array of strings, the set it
\* returned is empty and the run does not abort.
C5_MalformedStoreLoadsEmpty ==
    (runs > 0 /\ ~WellFormedStore(storeAtLoad)) => (loaded = {} /\ pc # "aborted")

\* C6: no run aborts, and a run that has ended has written a digest and the
\* last line of the log is the finish event.
C6_NoRunAborts ==
    /\ pc # "aborted"
    /\ (pc = "idle" /\ runs > 0) =>
          /\ digest # <<>>
          /\ logf[Len(logf)] = "=== Script finished ==="

\* C9 as stated: from a missing seen.json, every identifier the file holds
\* belongs to a posting some digest has listed.
C9_PersistedOnlyAfterReported ==
    store0.kind = "missing" => load_seen(store) \subseteq reported

\* C9 as amended: from a missing seen.json, every identifier the file holds
\* belongs to a posting some digest has listed, except between save_seen and
\* write_digest of a run, when the file also holds the identifiers of that
\* run's new postings, which the digest written next lists.
C9_PersistedReportedOnceDigestWritten ==
    store0.kind = "missing" =>
        /\ pc # "digest" => load_seen(store) \subseteq reported
        /\ pc = "digest" =>
              /\ load_seen(store) \subseteq reported \cup Ids(new_jobs)
              /\ \A k \in 1..Len(new_jobs) : Listed(DigestLines(new_jobs), new_jobs[k])

C9_Witness ==
    /\ store0.kind = "missing"
    /\ pc = "email"
    /\ runs = 1
    /\ load_seen(store) # {}
    /\ load_seen(store) \subseteq reported

\* C10: no two entries of new_jobs have the same identifier.
C10_NewJobsHaveDistinctIds ==
    Partitioned =>
        \A a, b \in 1..Len(new_jobs) : a # b => new_jobs[a].id # new_jobs[b].id

(***************************************************************************)
(* Properties of the parsers (under SpecParse).                            *)
(***************************************************************************)
PostedLine(ln) == StartsWith(Lower(ln), "posted ")

\* C7 as stated: a title line, a company line and a location line immediately
\* followed by a "posted " line give a posting with that title and the meta
\* "company | location | posted", when the title matches a keyword.
C7_TitleThreeLinesBeforePosted ==
    (pDone /\ pSite = "OnlineJobMW") =>
        LET lines == PageLines(pInput)
        IN  \A i \in 4..Len(lines) :
                (PostedLine(lines[i]) /\ keyword_match(lines[i - 3])) =>
                    \E k \in 1..Len(pOutput) :
                        /\ pOutput[k].title = lines[i - 3]
                        /\ pOutput[k].meta = lines[i - 2] \o " | " \o lines[i - 1] \o " | " \o lines[i]

\* C7 as amended: the title, company and location lines are the ones four,
\* three and two lines before the "posted " line (one more line stands between
\* the location and the "posted " line); each such "posted " line whose title
\* matches a keyword gives one posting with that title and the meta
\* "company | location | posted", and the parser yields no other posting.
C7_TitleFourLinesBeforePosted ==
    (pDone /\ pSite = "OnlineJobMW") =>
        LET lines == PageLines(pInput)
            hits == {i \in 5..Len(lines) : PostedLine(lines[i]) /\ keyword_match(lines[i - 4])}
        IN  /\ \A i \in hits :
                  \E k \in 1..Len(pOutput) :
                      /\ pOutput[k].title = lines[i - 4]
                      /\ pOutput[k].meta = lines[i - 3] \o " | " \o lines[i - 2] \o " | " \o lines[i]
            /\ Len(pOutput) = Cardinality(hits)

C7_Witness ==
    /\ pDone
    /\ pInput = <<"Finance Officer", "Acme Corp", " Lilongwe ", "Acme Corp", "Posted 2 days ago">>
    /\ Len(pOutput) = 1
    /\ pOutput[1].title = "Finance Officer"
    /\ pOutput[1].meta = "Acme Corp | Lilongwe | Posted 2 days ago"

\* the links of the page that pass the four tests of the Site A parser
Qualifying(links) ==
    {n \in 1..Len(links) :
        /\ Len(links[n].text) >= 6
        /\ StartsWith(Strip(links[n].href), "https://ntchito.com/")
        /\ Lower(links[n].text) \notin {"home", "jobs", "contact", "register", "login"}
        /\ keyword_match(links[n].text)}

\* everything C8 states but the form of the identifier
OnePostingPerQualifyingUrl ==
    LET good == Qualifying(pInput)
        urls == {Strip(pInput[n].href) : n \in good}
    IN  /\ {pOutput[k].link : k \in 1..Len(pOutput)} = urls
        /\ Len(pOutput) = Cardinality(urls)
        /\ \A k \in 1..Len(pOutput) :
              \E n \in good : pOutput[k].link = Strip(pInput[n].href) /\ pOutput[k].title = pInput[n].text
        /\ \A a, b \in 1..Len(pOutput) : a # b => pOutput[a].id # pOutput[b].id

\* C8 as stated: one posting per distinct target URL among the qualifying
\* links, nothing for the others, and each identifier is the posting's source
\* name, "::" and the target URL.
C8_IdIsSourceNameAndUrl ==
    (pDone /\ pSite = "Ntchito") =>
        /\ OnePostingPerQualifyingUrl
        /\ \A k \in 1..Len(pOutput) :
              pOutput[k].id = pOutput[k].source \o "::" \o pOutput[k].link

\* C8 as amended: the same, with the identifier "ntchito::" (the source name in
\* lower case) followed by the target URL.
C8_IdIsLowerCaseNameAndUrl ==
    (pDone /\ pSite = "Ntchito") =>
        /\ OnePostingPerQualifyingUrl
        /\ \A k \in 1..Len(pOutput) :
              pOutput[k].id = "ntchito::" \o pOutput[k].link

C8_Witness ==
    /\ pDone
    /\ pSite = "Ntchito"
    /\ Len(pInput) = 3
    /\ Cardinality(Qualifying(pInput)) = 2
    /\ pInput[1].href # pInput[3].href
    /\ Strip(pInput[1].href) = Strip(pInput[3].href)
    /\ pInput[2].text = "Home"
    /\ Len(pOutput) = 1
    /\ pOutput[1].id = "ntchito::https://ntchito.com/jobs/1"

====
